---- MODULE Spec2Model ----
(***************************************************************************)
(* Grid-state synchronisation engine of pixel-painter.                     *)
(*                                                                         *)
(* Server: the WebSocket handlers and the startup block of the backend     *)
(* (src/frontend/vite.config.js lines 75-189 and 404-426) over the SQLite  *)
(* adapter db.js (src/unnamed/part_004).                                   *)
(* Client: the WebSocket effect and the placement dialog of Grid.jsx.      *)
(*                                                                         *)
(* Node runs every handler to completion, so one handler is one action.    *)
(* A JavaScript value that is missing, null or "" is written "" here;      *)
(* Truthy is the test the code applies with && and !.                      *)
(***************************************************************************)
EXTENDS Integers, Sequences, FiniteSets, TLC

\* ------------------------------------------------------------------ domains
\* the keys Grid.jsx builds from a canvas cell, `${x},${y}`
CanvasKeys == {"0,0", "5,5"}
\* keys only a hand-written frame can carry
OddKeys == {"abc", "1,2,3"}
Keys == CanvasKeys \cup OddKeys
Colors == {"#ff0000", "#00ff00"}
Users == {"alice", "bob"}

Sessions == {"s1", "s2"}
\* in SpecSync s1 is a browser running Grid.jsx and s2 any other WebSocket
\* peer; in Spec every session is such a peer, which may send every frame
Browser == "s1"
Peer == "s2"

\* the frames a browser has sent that the server has not yet read
MaxQueue == 1
\* process restarts in one behaviour
MaxRestarts == 2
\* squares a user buys in one page session
MaxPurchases == 2

\* Grid.jsx line 26 (username from the token) and line 65 (selected color)
ClientUser(s) == "alice"
ClientColor(s) == "#ff0000"

Truthy(v) == v # ""

\* -------------------------------------------------------------- server data
\* gridState[key] is undefined (NoCell) or { color, username [, placed_at] }
NoCell == [color |-> "", username |-> "", placed_at |-> FALSE]
IsCell(c) == c # NoCell
EmptyGrid == [k \in Keys |-> NoCell]

\* a row of table pixels, keyed by grid_key (UNIQUE)
NoRow == [color |-> "", username |-> ""]
EmptyTable == [k \in Keys |-> NoRow]

NoGrid == [k \in {} |-> NoCell]

Frame(t, k, c, u) == [type |-> t, key |-> k, color |-> c, username |-> u]

\* the well-formed placement requests: each user paints in one color
Palette == {<<"#ff0000", "alice">>, <<"#00ff00", "bob">>}
PlaceFrames ==
  {Frame("colorCell", k, p[1], p[2]) : k \in CanvasKeys, p \in Palette}

\* the placement requests of a second user
RivalFrames == {Frame("colorCell", k, "#00ff00", "bob") : k \in CanvasKeys}

\* placement requests with a key of any shape
KeyFrames ==
  {Frame("colorCell", k, "#ff0000", "alice") : k \in OddKeys \cup {"0,0"}}

\* identity binds, and the placement requests of both users for one key
IdentityFrames ==
  {Frame("authenticate", "", "", u) : u \in Users}
    \cup {Frame("colorCell", "0,0", p[1], p[2]) : p \in Palette}

\* the payload null: JSON.parse accepts it and returns null
NullFrame == Frame("<null>", "", "", "")

\* colorCell with one field missing, authenticate without username, an
\* unknown type, and a payload JSON.parse rejects
BadFrames ==
  { Frame("colorCell", "", "#ff0000", "alice"),
    Frame("colorCell", "0,0", "", "alice"),
    Frame("colorCell", "0,0", "#ff0000", ""),
    Frame("authenticate", "", "", ""),
    Frame("ping", "", "", ""),
    Frame("<not json>", "", "", "") }

\* every frame a peer may send
Frames ==
  PlaceFrames \cup {Frame("authenticate", "", "", u) : u \in Users}
    \cup BadFrames \cup {NullFrame}

Msg(t, k, c, u, g) ==
  [type |-> t, key |-> k, color |-> c, username |-> u, grid |-> g]

\* ------------------------------------------------------------- client data
\* pixels[key] is undefined, a bare color string, or { color, username }
NoPixel == [form |-> "undefined", color |-> "", username |-> ""]
EmptyPixels == [k \in Keys |-> NoPixel]
NoConfirm == [open |-> FALSE, key |-> "", usedPurchased |-> FALSE]

VARIABLES
  serverState,   \* "running" | "crashed" (uncaught exception, process gone)
  gridState,     \* vite.config.js:82
  dbPixels,      \* table pixels of db.js
  dbUsers,       \* table users of db.js: pixels_placed, is_online
  conn,          \* wss.clients and readyState: "open" | "closed"
  wsUsername,    \* ws.username of each session
  toClient,      \* frames sent by the server, not yet handled by the peer
  toServer,      \* frames sent by a browser, not yet handled by the server
  ready,         \* client ws.readyState === 1 (onopen has run)
  pixels,        \* Grid.jsx:68
  confirmPlace,  \* Grid.jsx:30
  devPaymentCount, \* Grid.jsx:161, the purchased squares
  inCooldown,    \* lastColorTime && now - lastColorTime < 5000 (Grid.jsx:169)
  pendingCell,   \* Grid.jsx:53, the key awaiting payment or ""
  nRestarts,
  boot,          \* how the running process started: "fresh" | "loaded" | "loadFailed"
  saved,         \* keys of gridState whose cell is on disk as accepted or loaded
  winner,        \* per key, the first colorCell request this process handled
  accepts,       \* per key, how many requests this process accepted
  last           \* the step just taken

vars == <<serverState, gridState, dbPixels, dbUsers, conn, wsUsername,
          toClient, toServer, ready, pixels, confirmPlace, devPaymentCount,
          inCooldown, pendingCell, nRestarts, boot, saved, winner, accepts,
          last>>

shopVars == <<devPaymentCount, inCooldown, pendingCell>>
clientVars == <<ready, pixels, confirmPlace, shopVars>>
histVars == <<saved, winner, accepts>>

NoReq == [color |-> "", username |-> ""]

Step(e, s, k) ==
  [ev |-> e, s |-> s, key |-> k, color |-> "", user |-> "",
   accepted |-> FALSE, save |-> "none", inc |-> "none"]

\* ------------------------------------------------------------------- db.js
\* INSERT OR IGNORE: the row a key already has is kept
savePixelIgnore(db, gridKey, color, username) ==
  IF db[gridKey] # NoRow
    THEN db
    ELSE [db EXCEPT ![gridKey] = [color |-> color, username |-> username]]

\* INSERT OR REPLACE INTO pixels (grid_key, ..., color, username, ...)
savePixel(db, gridKey, color, username) ==
  [db EXCEPT ![gridKey] = [color |-> color, username |-> username]]

\* the rows of a table whose grid_key is not UNIQUE: an older row of a key
\* is still there
TableRowsStale(db) ==
  {[grid_key |-> k, color |-> db[k].color, username |-> db[k].username] :
     k \in {j \in Keys : db[j] # NoRow}}
    \cup {[grid_key |-> k, color |-> "#000000", username |-> "carol"] :
            k \in {j \in Keys : db[j] # NoRow}}

\* SELECT grid_key, color, username FROM pixels: the rows as a set
TableRows(db) ==
  {[grid_key |-> k, color |-> db[k].color, username |-> db[k].username] :
     k \in {j \in Keys : db[j] # NoRow}}

\* the orders in which the rows of a set can be returned
Orders(rows) ==
  {o \in [1..Cardinality(rows) -> rows] :
     \A i, j \in 1..Cardinality(rows) : i # j => o[i] # o[j]}

\* pixels.forEach(pixel => { gridState[pixel.grid_key] = {...} }) of
\* loadAllPixels, over the rows in the order given
RECURSIVE Replay(_)
Replay(rows) ==
  IF rows = <<>>
    THEN EmptyGrid
    ELSE LET n == Len(rows) IN
           [Replay(SubSeq(rows, 1, n - 1)) EXCEPT
              ![rows[n].grid_key] =
                 [color |-> rows[n].color, username |-> rows[n].username,
                  placed_at |-> TRUE]]

\* a load that reads the color column only
loadAllPixelsNoOwner(db) ==
  [k \in Keys |->
     IF db[k] # NoRow
       THEN [color |-> db[k].color, username |-> "", placed_at |-> TRUE]
       ELSE NoCell]

\* SELECT grid_key, color, username, placed_at FROM pixels, one cell per row
loadAllPixels(db) ==
  [k \in Keys |->
     IF db[k] # NoRow
       THEN [color |-> db[k].color, username |-> db[k].username,
             placed_at |-> TRUE]
       ELSE NoCell]

\* UPDATE users SET pixels_placed = pixels_placed + 1 WHERE username = ?
incrementUserPixels(users, username) ==
  IF username \in DOMAIN users
    THEN [users EXCEPT ![username].pixels_placed = @ + 1]
    ELSE users

\* an UPDATE that also resets the placement count
updateUserOnlineStatusAndCount(users, username, isOnline) ==
  IF username \in DOMAIN users
    THEN [users EXCEPT ![username] =
            [pixels_placed |-> 0, is_online |-> isOnline]]
    ELSE users

\* an UPDATE without the WHERE clause
updateEveryOnlineStatus(users, username, isOnline) ==
  [u \in DOMAIN users |-> [users[u] EXCEPT !.is_online = isOnline]]

\* UPDATE users SET is_online = ? WHERE username = ?
updateUserOnlineStatus(users, username, isOnline) ==
  IF username \in DOMAIN users
    THEN [users EXCEPT ![username].is_online = isOnline]
    ELSE users

\* ------------------------------------------------------------------ server
\* data.key.split(',').map(Number): each part is a number or NaN
Num(n) == [nan |-> FALSE, val |-> n]
NaN == [nan |-> TRUE, val |-> 0]
SplitKey(key) ==
  CASE key = "0,0" -> <<Num(0), Num(0)>>
    [] key = "5,5" -> <<Num(5), Num(5)>>
    [] key = "1,2,3" -> <<Num(1), Num(2), Num(3)>>
    [] key = "abc" -> <<NaN>>

\* const [x, y] = ...; savePixel binds x and y to columns INTEGER NOT NULL:
\* undefined cannot be bound and NaN is stored as NULL, so the INSERT throws
Storable(key) ==
  /\ Len(SplitKey(key)) >= 2
  /\ ~SplitKey(key)[1].nan /\ ~SplitKey(key)[2].nan

\* a socket that delivers the newest frame first
SendFirst(q, m) == <<m>> \o q

\* client.send(m): the frame follows those already sent on the connection
Send(q, m) == Append(q, m)

\* a snapshot in the bare-string form, without the owners
SnapshotNoOwner(g) ==
  [k \in {j \in Keys : IsCell(g[j])} |-> [g[k] EXCEPT !.username = ""]]

\* JSON.stringify(gridState): the keys that are set, each with its cell
Snapshot(g) == [k \in {j \in Keys : IsCell(g[j])} |-> g[k]]

InitMsg(g) == Msg("init", "", "", "", Snapshot(g))
CellUpdate(data) == Msg("cellUpdate", data.key, data.color, data.username, NoGrid)

\* a handler without the first-come-first-served test
CellIsEmptyAlways(g, key) == TRUE

\* if (!gridState[data.key])
CellIsEmpty(g, key) == ~IsCell(g[key])

\* a cell whose owner is filled in later
NewCellTorn(data) ==
  [color |-> data.color, username |-> "", placed_at |-> FALSE]

\* gridState[data.key] = { color: data.color, username: data.username }
NewCell(data) ==
  [color |-> data.color, username |-> data.username, placed_at |-> FALSE]

OpenSessions == {c \in Sessions : conn[c] = "open"}

\* the process dies on an uncaught exception or a kill: every socket drops,
\* no close handler runs, undelivered frames are discarded
Dropped ==
  /\ conn' = [c \in Sessions |-> "closed"]
  /\ wsUsername' = [c \in Sessions |-> ""]
  /\ toClient' = [c \in Sessions |-> <<>>]
  /\ toServer' = [c \in Sessions |-> <<>>]
  /\ ready' = [c \in Sessions |-> FALSE]
  /\ pixels' = [c \in Sessions |-> EmptyPixels]
  /\ confirmPlace' = [c \in Sessions |-> NoConfirm]
  /\ devPaymentCount' = [c \in Sessions |-> 0]
  /\ inCooldown' = [c \in Sessions |-> FALSE]
  /\ pendingCell' = [c \in Sessions |-> ""]

\* wss.on("connection"): vite.config.js:88-96; the browser side is the mount
\* of Grid (useState initial values, new WebSocket)
Connect(s) ==
  /\ serverState = "running"
  /\ conn[s] = "closed"
  /\ conn' = [conn EXCEPT ![s] = "open"]
  /\ wsUsername' = [wsUsername EXCEPT ![s] = ""]
  /\ toClient' = [toClient EXCEPT ![s] = Send(<<>>, InitMsg(gridState))]
  /\ toServer' = [toServer EXCEPT ![s] = <<>>]
  /\ last' = Step("connect", s, "")
  /\ UNCHANGED <<serverState, gridState, dbPixels, dbUsers, clientVars,
                 nRestarts, boot, histVars>>

\* ws.on("message"), authenticate branch: vite.config.js:113-118
Authenticate(s, data, rest, dbOk) ==
  /\ data.type = "authenticate" /\ Truthy(data.username)
  /\ IF dbOk
       THEN /\ wsUsername' = [wsUsername EXCEPT ![s] = data.username]
            /\ dbUsers' = updateUserOnlineStatus(dbUsers, data.username, TRUE)
            /\ toServer' = [toServer EXCEPT ![s] = rest]
            /\ UNCHANGED <<serverState, conn, toClient, clientVars>>
       ELSE \* updateUserOnlineStatus throws, nothing catches it
            /\ serverState' = "crashed"
            /\ Dropped
            /\ UNCHANGED dbUsers
  /\ last' = [Step("authenticate", s, "") EXCEPT
                 !.user = data.username,
                 !.inc = IF dbOk THEN "ok" ELSE "throw"]
  /\ UNCHANGED <<gridState, dbPixels, nRestarts, boot, histVars>>

\* ws.on("message"), colorCell branch: vite.config.js:121-164
ColorCell(s, data, rest, saveOk, incOk) ==
  /\ data.type = "colorCell"
  /\ Truthy(data.key) /\ Truthy(data.color) /\ Truthy(data.username)
  /\ winner' = IF winner[data.key] = NoReq
                 THEN [winner EXCEPT ![data.key] =
                         [color |-> data.color, username |-> data.username]]
                 ELSE winner
  /\ IF CellIsEmpty(gridState, data.key)
       THEN /\ gridState' = [gridState EXCEPT ![data.key] = NewCell(data)]
            /\ accepts' = [accepts EXCEPT ![data.key] = @ + 1]
            /\ dbPixels' = IF saveOk /\ Storable(data.key)
                             THEN savePixel(dbPixels, data.key, data.color,
                                            data.username)
                             ELSE dbPixels
            /\ saved' = IF saveOk /\ Storable(data.key)
                          THEN saved \cup {data.key}
                          ELSE saved
            /\ IF incOk
                 THEN /\ dbUsers' = incrementUserPixels(dbUsers, data.username)
                      /\ toClient' =
                           [c \in Sessions |->
                              IF conn[c] = "open"
                                THEN Send(toClient[c], CellUpdate(data))
                                ELSE toClient[c]]
                      /\ toServer' = [toServer EXCEPT ![s] = rest]
                      /\ UNCHANGED <<serverState, conn, wsUsername, clientVars>>
                 ELSE \* incrementUserPixels throws, nothing catches it
                      /\ serverState' = "crashed"
                      /\ Dropped
                      /\ UNCHANGED dbUsers
            /\ last' = [Step("colorCell", s, data.key) EXCEPT
                          !.user = data.username,
                          !.accepted = TRUE,
                          !.save = IF saveOk /\ Storable(data.key)
                                     THEN "ok" ELSE "fail",
                          !.inc = IF incOk THEN "ok" ELSE "throw"]
       ELSE /\ toServer' = [toServer EXCEPT ![s] = rest]
            /\ last' = [Step("colorCell", s, data.key) EXCEPT
                          !.user = data.username]
            /\ UNCHANGED <<serverState, gridState, dbPixels, dbUsers, conn,
                           wsUsername, toClient, clientVars, saved, accepts>>
  /\ UNCHANGED <<nRestarts, boot>>

\* ws.on("message"), every other frame: JSON.parse throws (104-110), an
\* authenticate without username, a colorCell with a field missing
\* (165-172), an unknown type
Ignored(s, data, rest) ==
  /\ data # NullFrame
  /\ ~(data.type = "authenticate" /\ Truthy(data.username))
  /\ ~(data.type = "colorCell" /\ Truthy(data.key) /\ Truthy(data.color)
         /\ Truthy(data.username))
  /\ toServer' = [toServer EXCEPT ![s] = rest]
  /\ last' = Step("ignored", s, "")
  /\ UNCHANGED <<serverState, gridState, dbPixels, dbUsers, conn, wsUsername,
                 toClient, clientVars, nRestarts, boot, histVars>>

\* ws.on("message") with data === null: the test data.type === "authenticate"
\* at vite.config.js:113 throws a TypeError, nothing catches it
NullPayload(s, data) ==
  /\ data = NullFrame
  /\ serverState' = "crashed"
  /\ Dropped
  /\ last' = [Step("null", s, "") EXCEPT !.inc = "throw"]
  /\ UNCHANGED <<gridState, dbPixels, dbUsers, nRestarts, boot, histVars>>

\* ws.on("message"): vite.config.js:102-175
OnMessage(s, data, rest) ==
  /\ serverState = "running"
  /\ conn[s] = "open"
  /\ \/ \E dbOk \in BOOLEAN : Authenticate(s, data, rest, dbOk)
     \/ /\ data.type = "colorCell" /\ Truthy(data.key)
        /\ \E saveOk \in BOOLEAN, incOk \in BOOLEAN :
             \* the outcomes matter only where the calls are made
             /\ CellIsEmpty(gridState, data.key) \/ (saveOk /\ incOk)
             /\ ColorCell(s, data, rest, saveOk, incOk)
     \/ Ignored(s, data, rest)
     \/ NullPayload(s, data)

\* a frame of a browser reaches the server
Deliver(s) ==
  /\ toServer[s] # <<>>
  /\ OnMessage(s, Head(toServer[s]), Tail(toServer[s]))

\* a peer sends a frame of F and the server handles it
PeerFrame(s, F) ==
  /\ \E data \in F : OnMessage(s, data, <<>>)

\* ws.on("close"): vite.config.js:181-188; for a browser the page is gone
Disconnect(s) ==
  /\ serverState = "running"
  /\ conn[s] = "open"
  /\ \E dbOk \in BOOLEAN :
       /\ IF ~Truthy(wsUsername[s]) \/ dbOk
            THEN /\ conn' = [conn EXCEPT ![s] = "closed"]
                 /\ wsUsername' = [wsUsername EXCEPT ![s] = ""]
                 /\ toClient' = [toClient EXCEPT ![s] = <<>>]
                 /\ toServer' = [toServer EXCEPT ![s] = <<>>]
                 /\ dbUsers' = IF Truthy(wsUsername[s])
                                 THEN updateUserOnlineStatus(dbUsers,
                                        wsUsername[s], FALSE)
                                 ELSE dbUsers
                 /\ ready' = [ready EXCEPT ![s] = FALSE]
                 /\ pixels' = [pixels EXCEPT ![s] = EmptyPixels]
                 /\ confirmPlace' = [confirmPlace EXCEPT ![s] = NoConfirm]
                 /\ devPaymentCount' = [devPaymentCount EXCEPT ![s] = 0]
                 /\ inCooldown' = [inCooldown EXCEPT ![s] = FALSE]
                 /\ pendingCell' = [pendingCell EXCEPT ![s] = ""]
                 /\ UNCHANGED serverState
            ELSE \* updateUserOnlineStatus throws, nothing catches it
                 /\ serverState' = "crashed"
                 /\ Dropped
                 /\ UNCHANGED dbUsers
       /\ last' = [Step("disconnect", s, "") EXCEPT
                     !.inc = IF ~Truthy(wsUsername[s]) THEN "none"
                             ELSE IF dbOk THEN "ok" ELSE "throw"]
  /\ UNCHANGED <<gridState, dbPixels, nRestarts, boot, histVars>>

\* the process is stopped, or has crashed, and is started again:
\* vite.config.js:404-426
Restart ==
  /\ nRestarts < MaxRestarts
  /\ nRestarts' = nRestarts + 1
  /\ Dropped
  /\ \E initOk \in BOOLEAN, loadOk \in BOOLEAN :
       IF ~initOk
         THEN \* initDB throws: process.exit(1)
              /\ serverState' = "crashed"
              /\ last' = [Step("restart", "", "") EXCEPT !.save = "initFailed"]
              /\ UNCHANGED <<gridState, boot, histVars>>
         ELSE /\ serverState' = "running"
              /\ gridState' = IF loadOk THEN loadAllPixels(dbPixels)
                                        ELSE EmptyGrid
              /\ boot' = IF loadOk THEN "loaded" ELSE "loadFailed"
              /\ saved' = IF loadOk THEN {k \in Keys : dbPixels[k] # NoRow}
                                    ELSE {}
              /\ winner' = [k \in Keys |-> NoReq]
              /\ accepts' = [k \in Keys |-> 0]
              /\ last' = [Step("restart", "", "") EXCEPT
                            !.save = IF loadOk THEN "loaded" ELSE "loadFailed"]
  /\ UNCHANGED <<dbPixels, dbUsers>>

\* ----------------------------------------------------------- db.js alone
\* savePixel called with one record; it throws for coordinates that cannot
\* be bound
AppendRecord(gridKey, color, username) ==
  /\ serverState = "running"
  /\ dbPixels' = IF Storable(gridKey)
                   THEN savePixel(dbPixels, gridKey, color, username)
                   ELSE dbPixels
  /\ last' = [Step("append", "", gridKey) EXCEPT
                 !.color = color, !.user = username,
                 !.save = IF Storable(gridKey) THEN "ok" ELSE "fail"]
  /\ UNCHANGED <<serverState, gridState, dbUsers, conn, wsUsername, toClient,
                 toServer, clientVars, nRestarts, boot, histVars>>

\* savePixel called again with the record of the call before
AppendRetry ==
  /\ serverState = "running"
  /\ last.ev \in {"append", "retry"} /\ last.save = "ok"
  /\ dbPixels' = savePixel(dbPixels, last.key, last.color, last.user)
  /\ last' = [last EXCEPT !.ev = "retry"]
  /\ UNCHANGED <<serverState, gridState, dbUsers, conn, wsUsername, toClient,
                 toServer, clientVars, nRestarts, boot, histVars>>

\* ------------------------------------------------------------------ client
ClientStep(s) == Step("client", s, "")

\* ws.onopen: Grid.jsx:97-106
OnOpen(s) ==
  /\ conn[s] = "open"
  /\ ~ready[s]
  /\ ready' = [ready EXCEPT ![s] = TRUE]
  /\ toServer' = [toServer EXCEPT ![s] =
       IF Truthy(ClientUser(s)) /\ ClientUser(s) # "guest"
         THEN Append(@, Frame("authenticate", "", "", ClientUser(s)))
         ELSE @]
  /\ last' = ClientStep(s)
  /\ UNCHANGED <<serverState, gridState, dbPixels, dbUsers, conn, wsUsername,
                 toClient, pixels, confirmPlace, shopVars, nRestarts, boot,
                 histVars>>

\* init branch of ws.onmessage: Grid.jsx:119-131
NormalizeGrid(grid) ==
  [k \in Keys |->
     IF k \in DOMAIN grid
       THEN [form |-> "object", color |-> grid[k].color,
             username |-> grid[k].username]
       ELSE NoPixel]

\* a cellUpdate branch without the test of prev[data.key]
ApplyCellUpdateOverwrite(prev, data) ==
  [prev EXCEPT ![data.key] =
     [form |-> "object", color |-> data.color, username |-> data.username]]

\* cellUpdate branch of ws.onmessage: Grid.jsx:134-146
ApplyCellUpdate(prev, data) ==
  IF prev[data.key] # NoPixel
    THEN prev
    ELSE [prev EXCEPT ![data.key] =
            [form |-> "object", color |-> data.color,
             username |-> data.username]]

\* ws.onmessage: Grid.jsx:109-147
ClientOnMessage(s) ==
  /\ conn[s] = "open"
  /\ ready[s]
  /\ toClient[s] # <<>>
  /\ LET data == Head(toClient[s]) IN
       pixels' = [pixels EXCEPT ![s] =
         IF data.type = "init"
           THEN NormalizeGrid(data.grid)
           ELSE IF data.type = "cellUpdate" /\ Truthy(data.key)
                     /\ Truthy(data.color)
                  THEN ApplyCellUpdate(@, data)
                  ELSE @]
  /\ toClient' = [toClient EXCEPT ![s] = Tail(@)]
  /\ last' = ClientStep(s)
  /\ UNCHANGED <<serverState, gridState, dbPixels, dbUsers, conn, wsUsername,
                 toServer, ready, confirmPlace, shopVars, nRestarts, boot,
                 histVars>>

\* a click handler that lets every click during the cooldown through as a
\* purchased one, whatever the count
HandleCanvasClickAnyCount(s, key) ==
  /\ conn[s] = "open"
  /\ ~confirmPlace[s].open
  /\ pixels[s][key] = NoPixel
  /\ confirmPlace' = [confirmPlace EXCEPT ![s] =
       [open |-> TRUE, key |-> key, usedPurchased |-> inCooldown[s]]]
  /\ last' = ClientStep(s)
  /\ UNCHANGED <<serverState, gridState, dbPixels, dbUsers, conn, wsUsername,
                 toClient, toServer, ready, pixels, devPaymentCount,
                 inCooldown, pendingCell, nRestarts, boot, histVars>>

\* handleCanvasClick and handleKeyboardPlacement, which differ only in how
\* the cell is picked: Grid.jsx:584-641 and 363-405
HandleCanvasClick(s, key) ==
  /\ conn[s] = "open"
  /\ ~confirmPlace[s].open
  \* if (!canColor) return
  /\ ~(inCooldown[s] /\ devPaymentCount[s] = 0)
  /\ IF pixels[s][key] = NoPixel
       THEN /\ confirmPlace' = [confirmPlace EXCEPT ![s] =
                 [open |-> TRUE, key |-> key,
                  usedPurchased |-> inCooldown[s] /\ devPaymentCount[s] > 0]]
            /\ UNCHANGED pendingCell
       ELSE \* a cell of the user's own color: return
            /\ pixels[s][key].color # ClientColor(s)
            /\ pendingCell' = [pendingCell EXCEPT ![s] = key]
            /\ UNCHANGED confirmPlace
  /\ last' = ClientStep(s)
  /\ UNCHANGED <<serverState, gridState, dbPixels, dbUsers, conn, wsUsername,
                 toClient, toServer, ready, pixels, devPaymentCount,
                 inCooldown, nRestarts, boot, histVars>>

\* optimistic update of handleConfirmPlace: Grid.jsx:653-657
OptimisticUpdate(prev, key, color) ==
  IF prev[key] # NoPixel
    THEN prev
    ELSE [prev EXCEPT ![key] =
            [form |-> "string", color |-> color, username |-> ""]]

\* handleConfirmPlace: Grid.jsx:647-688
HandleConfirmPlace(s, confirmed) ==
  /\ conn[s] = "open"
  /\ confirmPlace[s].open
  /\ Len(toServer[s]) < MaxQueue
  /\ IF confirmed
       THEN /\ pixels' = [pixels EXCEPT ![s] =
                 OptimisticUpdate(@, confirmPlace[s].key, ClientColor(s))]
            /\ toServer' = [toServer EXCEPT ![s] =
                 IF ready[s]
                   THEN Append(@, Frame("colorCell", confirmPlace[s].key,
                                        ClientColor(s), ClientUser(s)))
                   ELSE @]
            /\ IF ~confirmPlace[s].usedPurchased
                 THEN /\ inCooldown' = [inCooldown EXCEPT ![s] = TRUE]
                      /\ UNCHANGED devPaymentCount
                 ELSE /\ devPaymentCount' =
                           [devPaymentCount EXCEPT ![s] = @ - 1]
                      /\ UNCHANGED inCooldown
       ELSE UNCHANGED <<pixels, toServer, devPaymentCount, inCooldown>>
  /\ confirmPlace' = [confirmPlace EXCEPT ![s] = NoConfirm]
  /\ last' = [ClientStep(s) EXCEPT
                 !.ev = IF confirmed /\ confirmPlace[s].usedPurchased
                          THEN "confirmPurchased" ELSE @]
  /\ UNCHANGED <<serverState, gridState, dbPixels, dbUsers, conn, wsUsername,
                 toClient, ready, pendingCell, nRestarts, boot, histVars>>

\* handleDevPayment: Grid.jsx:431-433
HandleDevPayment(s) ==
  /\ conn[s] = "open"
  /\ devPaymentCount[s] < MaxPurchases
  /\ devPaymentCount' = [devPaymentCount EXCEPT ![s] = @ + 1]
  /\ last' = ClientStep(s)
  /\ UNCHANGED <<serverState, gridState, dbPixels, dbUsers, conn, wsUsername,
                 toClient, toServer, ready, pixels, confirmPlace, inCooldown,
                 pendingCell, nRestarts, boot, histVars>>

\* handlePaymentSuccess: Grid.jsx:694-710
HandlePaymentSuccess(s) ==
  /\ conn[s] = "open"
  /\ pendingCell[s] # ""
  /\ pixels' = [pixels EXCEPT ![s] =
                  OptimisticUpdate(@, pendingCell[s], ClientColor(s))]
  /\ inCooldown' = [inCooldown EXCEPT ![s] =
                      IF pixels[s][pendingCell[s]] # NoPixel THEN @ ELSE TRUE]
  /\ pendingCell' = [pendingCell EXCEPT ![s] = ""]
  /\ last' = ClientStep(s)
  /\ UNCHANGED <<serverState, gridState, dbPixels, dbUsers, conn, wsUsername,
                 toClient, toServer, ready, confirmPlace, devPaymentCount,
                 nRestarts, boot, histVars>>

\* five seconds have passed since the last placement: the test
\* nowTime - lastColorTime < 5000 (Grid.jsx:591) fails from now on
CooldownOver(s) ==
  /\ conn[s] = "open"
  /\ inCooldown[s]
  /\ inCooldown' = [inCooldown EXCEPT ![s] = FALSE]
  /\ last' = ClientStep(s)
  /\ UNCHANGED <<serverState, gridState, dbPixels, dbUsers, conn, wsUsername,
                 toClient, toServer, ready, pixels, confirmPlace,
                 devPaymentCount, pendingCell, nRestarts, boot, histVars>>

\* ------------------------------------------------------------------ claims
SameCell(a, b) == a.color = b.color /\ a.username = b.username

\* the cellUpdate of the placement the step just taken accepted
AcceptedUpdate(l, g) ==
  Msg("cellUpdate", l.key, g[l.key].color, g[l.key].username, NoGrid)

\* C1: of the colorCell requests one server process handles for a key, the
\* first is accepted and inserted and every other is dropped; a key that was
\* loaded at startup accepts none.
C1_Uniqueness ==
  \A k \in Keys :
    /\ accepts[k] <= 1
    /\ gridState[k].placed_at => accepts[k] = 0
    /\ winner[k] = NoReq => accepts[k] = 0
    /\ (winner[k] # NoReq /\ ~gridState[k].placed_at) =>
         /\ accepts[k] = 1
         /\ gridState[k] = [color |-> winner[k].color,
                            username |-> winner[k].username,
                            placed_at |-> FALSE]

\* a request for a key that an earlier request had won was handled and dropped
C1_Witness ==
  /\ last.ev = "colorCell" /\ ~last.accepted
  /\ accepts[last.key] = 1

\* C2: a key present in gridState stays, with the same color and owner, over
\* every connect, authenticate, colorCell and disconnect.
C2_CellImmutable ==
  [][\A k \in Keys : IsCell(gridState[k]) => gridState'[k] = gridState[k]]_vars

\* every key is set and sessions have since authenticated and disconnected
C2_Witness ==
  /\ \A k \in CanvasKeys : IsCell(gridState[k])
  /\ last.ev = "disconnect"
  /\ \E u \in Users : dbUsers[u].is_online

\* C3: an accepted placement is sent as one cellUpdate, with its key, color
\* and username, to every session open at that instant.
C3_FanoutComplete ==
  [][(last'.ev = "colorCell" /\ last'.accepted) =>
       \A c \in Sessions :
         conn[c] = "open" =>
           toClient'[c] = Append(toClient[c], AcceptedUpdate(last', gridState'))]_vars

\* C4: the first frame sent to a new session is an init whose grid has exactly
\* the keys of gridState at that moment, each with its color and owner.
C4_InitSnapshot ==
  last.ev = "connect" =>
    /\ Len(toClient[last.s]) = 1
    /\ LET m == toClient[last.s][1] IN
         /\ m.type = "init"
         /\ DOMAIN m.grid = {k \in Keys : IsCell(gridState[k])}
         /\ \A k \in DOMAIN m.grid : SameCell(m.grid[k], gridState[k])

\* a session connected to a grid that already had a cell
C4_Witness ==
  /\ last.ev = "connect"
  /\ \E k \in Keys : IsCell(gridState[k])

\* C5: every key of an init snapshot carries the whole accepted cell, color
\* and owner, as gridState holds it; a key not yet accepted is absent.
C5_SnapshotConsistent ==
  \A s \in Sessions :
    \A i \in 1..Len(toClient[s]) :
      toClient[s][i].type = "init" =>
        \A k \in DOMAIN toClient[s][i].grid :
          /\ toClient[s][i].grid[k] = gridState[k]
          /\ Truthy(gridState[k].color) /\ Truthy(gridState[k].username)

\* a peer connected while a placement of the browser was in flight, and the
\* snapshot it got is the grid before that placement
C5_Witness ==
  /\ last.ev = "connect" /\ last.s = Peer
  /\ \E i \in 1..Len(toServer[Browser]) :
       /\ toServer[Browser][i].type = "colorCell"
       /\ toServer[Browser][i].key \notin DOMAIN toClient[Peer][1].grid

\* C6: once every frame sent has been handled, the local grid of an open
\* browser has the keys of gridState, each with the same color.
C6_Convergence ==
  (conn[Browser] = "open" /\ ready[Browser]
     /\ toClient[Browser] = <<>> /\ toServer[Browser] = <<>>) =>
    \A k \in Keys :
      /\ (pixels[Browser][k] # NoPixel) <=> IsCell(gridState[k])
      /\ pixels[Browser][k].color = gridState[k].color

\* C7: a colorCell on a session without bound identity changes neither the
\* grid, the pixels table nor the users table, and nothing is sent.
C7_UnboundIgnored ==
  [][(last'.ev = "colorCell" /\ ~Truthy(wsUsername[last'.s])) =>
       UNCHANGED <<gridState, dbPixels, dbUsers, toClient>>]_vars

C9_AppendFailureHarmless ==
  [][(last'.ev = "colorCell" /\ last'.accepted /\ last'.save = "fail") =>
       /\ IsCell(gridState'[last'.key])
       /\ \A c \in Sessions :
            conn[c] = "open" =>
              AcceptedUpdate(last', gridState') \in
                {toClient'[c][i] : i \in 1..Len(toClient'[c])}]_vars

\* C10: a process whose loadAllPixels failed at startup accepts no session.
C10_LoadFailureFatal ==
  boot = "loadFailed" => \A s \in Sessions : conn[s] = "closed"

\* C11: a row of table pixels, once written, keeps its color and username and
\* is never removed, over placements, appends and restarts, a restart whose
\* load failed included.
C11_AppendOnly ==
  [][\A k \in Keys : dbPixels[k] # NoRow => dbPixels'[k] = dbPixels[k]]_vars
\* the last cellUpdate on the connection of c is the one of the placement the
\* step accepted
GotUpdate(c) ==
  /\ toClient'[c] # <<>>
  /\ toClient'[c][Len(toClient'[c])] = AcceptedUpdate(last', gridState')

\* C12: a frame that cannot be parsed, has an unknown type or lacks a field is
\* dropped: grid, pixels table, users table and every connection are as
\* before and the session is still open; and a well-formed colorCell for an
\* empty key that the same session sends next is accepted and broadcast.
C12_MalformedDropped ==
  [][/\ last'.ev \in {"ignored", "null"} =>
          /\ UNCHANGED <<gridState, dbPixels, dbUsers, toClient>>
          /\ conn'[last'.s] = "open"
     /\ (last.ev = "ignored" /\ last'.ev = "colorCell" /\ last'.s = last.s
           /\ CellIsEmpty(gridState, last'.key)) =>
          /\ IsCell(gridState'[last'.key])
          /\ \A c \in OpenSessions : GotUpdate(c)]_vars
\* two base-10 integers joined by one comma: of the keys here, those that
\* split into exactly two numbers
WellFormedKey(key) ==
  /\ Len(SplitKey(key)) = 2
  /\ \A i \in 1..2 : ~SplitKey(key)[i].nan

\* C13: every key set in gridState is two integers joined by a comma, and a
\* colorCell whose key is not so is dropped: no cell is inserted, no row is
\* written and nothing is sent.
C13_KeyForm ==
  [][/\ \A k \in Keys : IsCell(gridState'[k]) => WellFormedKey(k)
     /\ (last'.ev = "colorCell" /\ ~WellFormedKey(last'.key)) =>
          UNCHANGED <<gridState, dbPixels, toClient>>]_vars
\* C14: a colorCell for a key that is set in gridState sends nothing on any
\* connection, the requester's included, and leaves gridState, the pixels
\* table and every pixels_placed unchanged.
C14_SilentRejection ==
  [][(last'.ev = "colorCell" /\ IsCell(gridState[last'.key])) =>
       /\ UNCHANGED <<gridState, dbPixels, toClient>>
       /\ \A u \in Users :
            dbUsers'[u].pixels_placed = dbUsers[u].pixels_placed]_vars

\* a request for a key another user holds was handled while both sessions
\* were open
C14_Witness ==
  /\ last.ev = "colorCell" /\ ~last.accepted
  /\ gridState[last.key].username # last.user
  /\ \A c \in Sessions : conn[c] = "open"
\* the positions of the cellUpdate frames for key k on a connection
UpdatesFor(q, k) ==
  {i \in 1..Len(q) : q[i].type = "cellUpdate" /\ q[i].key = k}

\* C15: on every connection there is at most one cellUpdate per key, and it
\* carries the color and username of the first request for that key the
\* server handled; the later requests add none.
C15_OneUpdatePerKey ==
  \A s \in Sessions, k \in Keys :
    /\ Cardinality(UpdatesFor(toClient[s], k)) <= 1
    /\ \A i \in UpdatesFor(toClient[s], k) :
         /\ toClient[s][i].color = winner[k].color
         /\ toClient[s][i].username = winner[k].username

\* a session that was sent the cellUpdate of a key saw a second user's request
\* for that key handled, and was sent nothing more
C15_Witness ==
  /\ last.ev = "colorCell" /\ ~last.accepted
  /\ last.user # winner[last.key].username
  /\ \E s \in Sessions : Cardinality(UpdatesFor(toClient[s], last.key)) = 1
\* the keys of the init snapshot sent on a connection
InitKeys(q) == IF q # <<>> /\ q[1].type = "init" THEN DOMAIN q[1].grid ELSE {}

\* C16: a key accepted before a session connected is in that session's init
\* snapshot and no cellUpdate for it is sent to the session; a key accepted
\* while the session is open is not in its snapshot and its cellUpdate is sent
\* to the session.
C16_NoReplayNoGap ==
  [][/\ \A s \in Sessions, k \in Keys :
          (conn'[s] = "open" /\ IsCell(gridState'[k])) =>
            IF k \in InitKeys(toClient'[s])
              THEN UpdatesFor(toClient'[s], k) = {}
              ELSE Cardinality(UpdatesFor(toClient'[s], k)) = 1
     /\ (last'.ev = "connect") =>
          InitKeys(toClient'[last'.s]) = {k \in Keys : IsCell(gridState[k])}
     /\ (last'.ev = "colorCell" /\ last'.accepted) =>
          \A c \in OpenSessions :
            /\ last'.key \notin InitKeys(toClient[c])
            /\ GotUpdate(c)]_vars
\* C17: the frames sent on a connection start with its init and every later
\* one is a cellUpdate; a cellUpdate is put after the frames already sent, in
\* the step that accepts its placement, so the cellUpdates of a connection are
\* in the order of acceptance.
C17_SessionOrder ==
  [][\A s \in Sessions :
       /\ toClient'[s] # <<>> =>
            /\ toClient'[s][1].type = "init"
            /\ \A i \in 2..Len(toClient'[s]) :
                 toClient'[s][i].type = "cellUpdate"
       /\ \/ toClient'[s] = toClient[s]
          \/ toClient'[s] = <<>>
          \/ /\ last'.ev = "connect" /\ last'.s = s
             /\ toClient[s] = <<>> /\ Len(toClient'[s]) = 1
          \/ /\ last'.ev = "colorCell" /\ last'.accepted
             /\ toClient'[s] =
                  Append(toClient[s], AcceptedUpdate(last', gridState'))]_vars

\* a session was sent its init, the cellUpdate of one key and then, by the
\* step just taken, the cellUpdate of another
C17_Witness ==
  /\ last.ev = "colorCell" /\ last.accepted
  /\ \E s \in Sessions :
       /\ Len(toClient[s]) = 3
       /\ toClient[s][2].key # last.key
       /\ toClient[s][3].key = last.key
\* C18: an authenticate with a username sets is_online of that user; a
\* disconnect clears is_online of the user bound to the session and of nobody
\* when none is bound; neither writes a row of table pixels.
C18_Presence ==
  [][/\ last'.ev = "authenticate" =>
          /\ dbUsers'[last'.user].is_online
          /\ dbPixels' = dbPixels
     /\ last'.ev = "disconnect" =>
          /\ dbUsers' = IF Truthy(wsUsername[last'.s])
                          THEN [dbUsers EXCEPT
                                  ![wsUsername[last'.s]].is_online = FALSE]
                          ELSE dbUsers
          /\ dbPixels' = dbPixels]_vars
\* C19: an authenticate on a session already bound to another user binds the
\* session to the user of the frame, and the disconnect of a session changes
\* is_online of its bound user only, to FALSE.
C19_RebindOverwrites ==
  [][/\ (last'.ev = "authenticate" /\ conn'[last'.s] = "open") =>
          wsUsername'[last'.s] = last'.user
     /\ last'.ev = "disconnect" =>
          /\ \A u \in Users :
               u # wsUsername[last'.s] => dbUsers'[u] = dbUsers[u]
          /\ (last'.inc = "ok") => ~dbUsers'[wsUsername[last'.s]].is_online]_vars

\* a session bound to one user after another has disconnected: the later
\* user is offline and the earlier one is still online
C19_Witness ==
  /\ last.ev = "disconnect" /\ last.inc = "ok"
  /\ \E a \in Users, b \in Users :
       /\ a # b
       /\ dbUsers[a].is_online /\ ~dbUsers[b].is_online
       /\ \A s \in Sessions : wsUsername[s] = ""
Placed(users, u) == users[u].pixels_placed

\* C20: a step that accepts a placement adds one to pixels_placed of the user
\* named in the request and leaves the other users' counts; every other step
\* (a rejected, malformed or ignored request among them) leaves every count.
C20_CountPerPlacement ==
  [][\A u \in Users :
       Placed(dbUsers', u) =
         IF last'.ev = "colorCell" /\ last'.accepted /\ u = last'.user
           THEN Placed(dbUsers, u) + 1
           ELSE Placed(dbUsers, u)]_vars
\* C21: the step that decides a placement request does not wait for the
\* durable write: it leaves table pixels as it was, the row being written by
\* a later step, so that the next decision can come before the write is done.
C21_WriteDeferred ==
  [][(last'.ev = "colorCell" /\ last'.accepted) => dbPixels' = dbPixels]_vars
\* C22: a call of savePixel leaves exactly one row for its key, with the
\* color and username of the call, and the other rows as they were; the same
\* call made again leaves the table as the first call left it.
C22_AppendIdempotent ==
  [][/\ (last'.ev \in {"append", "retry"} /\ last'.save = "ok") =>
          /\ {r \in TableRows(dbPixels') : r.grid_key = last'.key} =
               {[grid_key |-> last'.key, color |-> last'.color,
                 username |-> last'.user]}
          /\ \A k \in Keys \ {last'.key} : dbPixels'[k] = dbPixels[k]
     /\ last'.ev = "retry" => TableRows(dbPixels') = TableRows(dbPixels)]_vars

\* a record was appended and appended again while the table held a row of
\* another key
C22_Witness ==
  /\ last.ev = "retry"
  /\ \E k \in Keys \ {last.key} : dbPixels[k] # NoRow
\* C23: whatever the order in which the rows of table pixels are replayed,
\* the grid built is the same, the one loadAllPixels returns.
C23_ReplayOrder ==
  \A o \in Orders(TableRows(dbPixels)) : Replay(o) = loadAllPixels(dbPixels)

\* a restart loaded a table of two rows, which can be replayed in two orders
C23_Witness ==
  /\ last.ev = "restart" /\ last.save = "loaded"
  /\ Cardinality(Orders(TableRows(dbPixels))) = 2
  /\ gridState = loadAllPixels(dbPixels)
\* the frames the step put on the connection of c
NewFrames(c) ==
  {toClient'[c][i] : i \in (Len(toClient[c]) + 1)..Len(toClient'[c])}

\* C24: in a step that accepts a placement, the owner set in gridState, the
\* username of every cellUpdate sent, the username of the row written and the
\* user whose pixels_placed changes are the username of the frame, whichever
\* user the session is bound to.
C24_TrustsFrameUsername ==
  [][(last'.ev = "colorCell" /\ last'.accepted) =>
       /\ gridState'[last'.key].username = last'.user
       /\ \A c \in Sessions : \A m \in NewFrames(c) :
            m.type = "cellUpdate" /\ m.key = last'.key
              /\ m.username = last'.user
       /\ dbPixels'[last'.key] # dbPixels[last'.key] =>
            dbPixels'[last'.key].username = last'.user
       /\ \A u \in Users :
            Placed(dbUsers', u) # Placed(dbUsers, u) => u = last'.user]_vars

\* a session bound to one user had a placement in the name of the other
\* accepted, written, counted and broadcast
C24_Witness ==
  /\ last.ev = "colorCell" /\ last.accepted
  /\ last.save = "ok" /\ last.inc = "ok"
  /\ Truthy(wsUsername[last.s]) /\ wsUsername[last.s] # last.user
  /\ dbPixels[last.key].username = last.user
  /\ Placed(dbUsers, last.user) = 1
\* C25: an authenticate and a disconnect leave gridState, table pixels and
\* every pixels_placed as they were and put no frame on any connection.
C25_SessionEventsInert ==
  [][last'.ev \in {"authenticate", "disconnect"} =>
       /\ UNCHANGED <<gridState, dbPixels>>
       /\ \A u \in Users : Placed(dbUsers', u) = Placed(dbUsers, u)
       /\ \A c \in Sessions : toClient'[c] \in {toClient[c], <<>>}
       /\ \A c \in Sessions : conn'[c] = "open" => toClient'[c] = toClient[c]]_vars

\* a session that had placed a cell authenticated and then disconnected
\* while the other session stayed open
C25_Witness ==
  /\ last.ev = "disconnect" /\ last.inc = "ok"
  /\ \E u \in Users : Placed(dbUsers, u) = 1
  /\ \E k \in Keys : dbPixels[k] # NoRow
  /\ \E c \in Sessions : conn[c] = "open" /\ Len(toClient[c]) = 2
\* C28: while the server runs, a user is_online exactly when some open
\* session is bound to that user.
C28_OnlineIffBound ==
  serverState = "running" =>
    \A u \in Users :
      dbUsers[u].is_online <=>
        \E s \in Sessions : conn[s] = "open" /\ wsUsername[s] = u
\* C29: when incrementUserPixels throws for an accepted placement, the cell
\* stays in gridState and the cellUpdate still goes to every open session.
C29_CounterFailureHarmless ==
  [][(last'.ev = "colorCell" /\ last'.accepted /\ last'.inc = "throw") =>
       /\ IsCell(gridState'[last'.key])
       /\ serverState' = "running"
       /\ \A c \in OpenSessions : conn'[c] = "open" /\ GotUpdate(c)]_vars
\* the browser handles the frame at the head of its connection
Handles(type) ==
  /\ toClient[Browser] # <<>>
  /\ toClient[Browser][1].type = type
  /\ toClient'[Browser] = Tail(toClient[Browser])

\* the keys whose entry of the browser's local grid the step changes
Changed == {k \in Keys : pixels'[Browser][k] # pixels[Browser][k]}

C27_OneCellForm ==
  \A k \in Keys : pixels[Browser][k].form \in {"undefined", "object"}
\* C30: the purchased-squares count of the browser is never negative; a
\* placement dialog opens during the cooldown only while the count is
\* positive, and is then marked as purchased; the count goes down only when a
\* dialog so marked is confirmed, by one, and that step leaves the cooldown.
C30_PurchasedNeverNegative ==
  [][conn'[Browser] = "open" =>
       /\ devPaymentCount'[Browser] >= 0
       /\ (~confirmPlace[Browser].open /\ confirmPlace'[Browser].open
             /\ inCooldown[Browser]) =>
            /\ devPaymentCount[Browser] > 0
            /\ confirmPlace'[Browser].usedPurchased
       /\ devPaymentCount'[Browser] < devPaymentCount[Browser] =>
            /\ confirmPlace[Browser].open
            /\ confirmPlace[Browser].usedPurchased
            /\ ~confirmPlace'[Browser].open
            /\ devPaymentCount'[Browser] = devPaymentCount[Browser] - 1
            /\ inCooldown'[Browser] = inCooldown[Browser]]_vars

\* the last purchased square was used by confirming a dialog during the
\* cooldown
C30_Witness ==
  /\ last.ev = "confirmPurchased"
  /\ devPaymentCount[Browser] = 0
  /\ inCooldown[Browser]

\* ----------------------------------------------------------- specification
\* the server has started on an empty database, nobody is connected
Init ==
  /\ serverState = "running"
  /\ gridState = EmptyGrid
  /\ dbPixels = EmptyTable
  /\ dbUsers = [u \in Users |-> [pixels_placed |-> 0, is_online |-> FALSE]]
  /\ conn = [s \in Sessions |-> "closed"]
  /\ wsUsername = [s \in Sessions |-> ""]
  /\ toClient = [s \in Sessions |-> <<>>]
  /\ toServer = [s \in Sessions |-> <<>>]
  /\ ready = [s \in Sessions |-> FALSE]
  /\ pixels = [s \in Sessions |-> EmptyPixels]
  /\ confirmPlace = [s \in Sessions |-> NoConfirm]
  /\ devPaymentCount = [s \in Sessions |-> 0]
  /\ inCooldown = [s \in Sessions |-> FALSE]
  /\ pendingCell = [s \in Sessions |-> ""]
  /\ nRestarts = 0
  /\ boot = "fresh"
  /\ saved = {}
  /\ winner = [k \in Keys |-> NoReq]
  /\ accepts = [k \in Keys |-> 0]
  /\ last = Step("init", "", "")

\* the running server and two peers
Next ==
  \/ \E s \in Sessions : Connect(s)
  \/ \E s \in Sessions : PeerFrame(s, Frames)
  \/ \E s \in Sessions : Disconnect(s)

Spec == Init /\ [][Next]_vars

\* the server across restarts, with one peer that places cells
NextRestart ==
  \/ Connect(Peer)
  \/ PeerFrame(Peer, PlaceFrames)
  \/ Disconnect(Peer)
  \/ Restart

SpecRestart == Init /\ [][NextRestart]_vars

\* the running server, one browser and one peer that places cells
NextSync ==
  \/ \E s \in Sessions : Connect(s)
  \/ \E s \in Sessions : Disconnect(s)
  \/ PeerFrame(Peer, RivalFrames)
  \/ Deliver(Browser)
  \/ OnOpen(Browser)
  \/ ClientOnMessage(Browser)
  \/ \E k \in CanvasKeys : HandleCanvasClick(Browser, k)
  \/ \E c \in BOOLEAN : HandleConfirmPlace(Browser, c)
  \/ HandlePaymentSuccess(Browser)
  \/ CooldownOver(Browser)

SpecSync == Init /\ [][NextSync]_vars

\* one browser that buys squares and places cells, and the running server
NextShop ==
  \/ Connect(Browser)
  \/ Disconnect(Browser)
  \/ Deliver(Browser)
  \/ OnOpen(Browser)
  \/ ClientOnMessage(Browser)
  \/ \E k \in CanvasKeys : HandleCanvasClick(Browser, k)
  \/ \E c \in BOOLEAN : HandleConfirmPlace(Browser, c)
  \/ HandleDevPayment(Browser)
  \/ CooldownOver(Browser)

SpecShop == Init /\ [][NextShop]_vars

\* the running server and two peers whose requests carry a key of any shape
NextKeys ==
  \/ \E s \in Sessions : Connect(s)
  \/ \E s \in Sessions : PeerFrame(s, KeyFrames)
  \/ \E s \in Sessions : Disconnect(s)

SpecKeys == Init /\ [][NextKeys]_vars

\* the running server and two peers that bind identities and contend for
\* one key
NextIdentity ==
  \/ \E s \in Sessions : Connect(s)
  \/ \E s \in Sessions : PeerFrame(s, IdentityFrames)
  \/ \E s \in Sessions : Disconnect(s)

SpecIdentity == Init /\ [][NextIdentity]_vars

\* the pixels table under calls of savePixel
NextAppend ==
  \/ \E k \in Keys, c \in Colors, u \in Users : AppendRecord(k, c, u)
  \/ AppendRetry

SpecAppend == Init /\ [][NextAppend]_vars

====
